---- MODULE Spec2Model ----
(***************************************************************************)
(* Touchscreen trackpad gesture engine of esp32_do_it.                     *)
(*                                                                         *)
(* Two engines live in the repository and both are modelled:               *)
(*   - class Trackpad (main/trackpad_gesture.hpp), reached through the C   *)
(*     wrapper of main/trackpad_gesture.cpp; it is the engine that has     *)
(*     tick, multi-tap chaining and tap-then-hold drag.  Its variables     *)
(*     keep their m_ names and its behaviours are Spec.                    *)
(*   - the procedural engine trackpad_process_input of                     *)
(*     main/trackpad_gesture.c, which owns button_held and the scroll      *)
(*     strips.  Its variables are prefixed c_ and its behaviours are SpecC.*)
(***************************************************************************)
EXTENDS Integers, Sequences, FiniteSets, TLC

\* ------------------------------------------------------------------------
\* Bounds of the exploration
\* ------------------------------------------------------------------------
MaxTime == 300          \* timestamps handed to the engine stay <= MaxTime
MaxChainTime == 700     \* the same, for the host that only taps (SpecTaps)
MaxTaps == 5            \* a chain is not extended beyond MaxTaps taps
MaxMovement == 6        \* a contact is not moved once total_movement passed it
MaxLiveTime == 150      \* the last sample of the host that stops (SpecLive) comes
                        \* at MaxLiveTime at the latest

\* Time between two consecutive calls (ms).  Timestamps are monotonic.
TimeSteps == {0, 50, 100, 150, 300}

\* Sample positions handed to class Trackpad (x; y is fixed by TouchY).
TouchXs == {100, 101, 103, 140}
TouchY == 100

\* the two trackpad_state_t values of the two-instance host, the touch
\* columns and the time steps of their events, and the last timestamp
Instances == {1, 2}
TwoXs == {100, 103}
TwoSteps == {0, 150}
MaxTwoTime == 300

\* calls of trackpad_state_init made while trackpad_poll_task runs (SpecRace)
MaxInits == 2

\* iterations of the polling loop (SpecStatus)
MaxIters == 3

\* Finished contacts put to the two tap tests (SpecTapClass): durations,
\* net displacements and total movements on both sides of every threshold of
\* trackpad_classify_tap and of is_tap
TapDurations == {0, 49, 50, 51, 100, 149, 150, 151, 199, 200, 201}
TapDistances == {0, 4, 5, 6, 14, 15, 16}
TapMovements == {0, 4, 5, 6, 10, 11, 15, 16, 30, 31}

\* The same for the procedural engine (SpecC)
MaxTimeC == 500         \* timestamps handed to trackpad_process_input
MaxMovementC == 40      \* a contact is not moved once it has moved more than this
FarDistance == 2563     \* how far above the screen a moving contact may be reported

TimeStepsC == {0, 100}

\* Positions <<x, y>> of a touch-down: main area, right strip, bottom strip
PointsC == {<<100, 100>>, <<103, 100>>, <<140, 100>>, <<300, 100>>, <<100, 220>>}

\* Positions of a moving contact (coordinates are int32 and are not checked
\* against the screen)
MovePointsC == PointsC \cup {<<300, 100 - FarDistance>>}

\* Positions of a contact in the right strip (SpecFar), on the panel and far
\* above and below it
StripPoints == {<<300, 100>>, <<300, 120>>}
FarPoints == StripPoints \cup {<<300, 100 - FarDistance>>, <<300, 100 + FarDistance>>}

\* Timestamps of the host whose clock may step back (SpecBack)
BackTimes == {0, 100, 500}

\* Arguments of trackpad_get_zone (SpecZone): coordinates on both sides of
\* every strip boundary and of every edge of a hres x vres panel (x and y are
\* int32_t and are not checked against the panel), strips 40 wide or disabled
ZoneXs == {-1, 0, 279, 280, 319, 320}
ZoneYs == {-1, 0, 39, 40, 199, 200, 239, 240}
ZoneSizes == {0, 40}

\* The host of the click queue (SpecSeq)
MaxSeqTime == 20        \* a Click is queued at MaxSeqTime at the latest; polls go
                        \* on until the queue is empty and a poll found it so
MaxQueues == 2          \* number of Click actions the host queues

\* Time between two consecutive polls (ms)
PollSteps == {0, 5, 10, 30}

\* The host of the HID sink (SpecHid)
MaxCalls == 3           \* number of reports submitted

\* ------------------------------------------------------------------------
\* TrackpadConfig defaults (trackpad_gesture.hpp)
\* ------------------------------------------------------------------------
tap_max_duration_ms == 150
tap_max_movement_px == 5
multi_tap_window_ms == 300
drag_hold_time_ms == 150
anti_wiggle_px == 2
\* accel_min = 1.5, accel_max = 4.0: kept in tenths (AccumScale)
AccumScale == 10
accel_min == 15
accel_max == 40
accel_velocity_scale == 100
\* speed estimate factor of handlePressing (px/s at 200 Hz polling)
SpeedFactor == 200

\* ------------------------------------------------------------------------
\* Configuration constants of the procedural engine (trackpad_gesture.h)
\* ------------------------------------------------------------------------
TRACKPAD_JITTER_THRESHOLD == 3
\* TRACKPAD_VELOCITY_ALPHA = 0.3, in tenths
TRACKPAD_VELOCITY_ALPHA == 3
\* multipliers of the acceleration curve, in thousandths (MultScale)
MultScale == 1000
TRACKPAD_ACCEL_PRECISION_SENSITIVITY == 500
TRACKPAD_ACCEL_BASE_SENSITIVITY == 1000
TRACKPAD_ACCEL_MAX_MULTIPLIER == 5000
\* velocity thresholds of the acceleration curve, px/s
TRACKPAD_ACCEL_PRECISION_THRESHOLD == 100
TRACKPAD_ACCEL_LINEAR_THRESHOLD == 400
TRACKPAD_ACCEL_MAX_THRESHOLD == 1500
TRACKPAD_TAP_MIN_DURATION_MS == 50
TRACKPAD_TAP_MAX_DURATION_MS == 200
TRACKPAD_TAP_MOVE_THRESHOLD == 15
TRACKPAD_DOUBLE_TAP_WINDOW_MS == 350
TRACKPAD_DRAG_MOVE_THRESHOLD == 25
TRACKPAD_SCROLL_SENSITIVITY == 20

\* screen and scroll strips handed to trackpad_state_init
\* click queue (app_trackpad.c)
CLICK_PRESS_MS == 10
CLICK_GAP_MS == 30

\* attempts of the retry loop of app_hid_trackpad_send_click
SEND_ATTEMPTS == 5

hres == 320
vres == 240
scroll_zone_w == 40
scroll_zone_h == 40

\* ------------------------------------------------------------------------
\* Helpers
\* ------------------------------------------------------------------------
Abs(v) == IF v < 0 THEN -v ELSE v

Min(a, b) == IF a < b THEN a ELSE b

\* a - b on uint32_t, for timestamps a and b far below 2^31.  When a < b the
\* difference wraps to 2^32 - (b - a), which is above every threshold and
\* every divisor's useful range; it is represented by the largest integer
\* the checker has.
U32Sub(a, b) == IF a >= b THEN a - b ELSE 2147483647

\* C/C++ conversion of a real to an integer type: truncation toward zero.
\* v is given in 1/scale units.
TruncDiv(v, scale) == IF v >= 0 THEN v \div scale ELSE -((-v) \div scale)

\* static_cast<int16_t>(float): the truncated value when it is representable,
\* any int16 otherwise (the conversion is undefined behaviour).
Int16Cast(v) == IF v >= -32768 /\ v <= 32767 THEN {v} ELSE (-32768)..32767

\* (int8_t)float: the same for int8
Int8Cast(v) == IF v >= -128 /\ v <= 127 THEN {v} ELSE (-128)..127

\* int8_t = int: the value modulo 2^8 (the conversion the compiler defines)
Int8Wrap(v) == ((v + 128) % 256) - 128

\* roundf of a value given in 1/scale units: half away from zero
RoundDiv(v, scale) == IF v >= 0 THEN (2 * v + scale) \div (2 * scale)
                      ELSE -((2 * (-v) + scale) \div (2 * scale))

\* sqrtf, truncated to an integer: the largest r in lo..hi with r * r <= n
RECURSIVE ISqrtIn(_, _, _)
ISqrtIn(n, lo, hi) ==
    IF lo >= hi THEN lo
    ELSE LET mid == (lo + hi + 1) \div 2
         IN  IF mid * mid <= n THEN ISqrtIn(n, mid, hi) ELSE ISqrtIn(n, lo, mid - 1)

ISqrt(n) == ISqrtIn(n, 0, 46340)

\* TrackpadAction
Action(t, x, y) == [type |-> t, dx |-> x, dy |-> y]

NoAction == Action("NONE", 0, 0)

hasAction(a) == a.type # "NONE"

ClickTypes == {"CLICK", "DOUBLE_CLICK", "TRIPLE_CLICK", "QUAD_CLICK"}

\* the number n of Click{n}
ClickN(t) == CASE t = "CLICK" -> 1
               [] t = "DOUBLE_CLICK" -> 2
               [] t = "TRIPLE_CLICK" -> 3
               [] t = "QUAD_CLICK" -> 4
               [] OTHER -> 0

\* ------------------------------------------------------------------------
\* State of class Trackpad
\* ------------------------------------------------------------------------
VARIABLES m_state, m_touch_down, m_tap_count,
          m_last_x, m_last_y, m_touch_start_x, m_touch_start_y,
          m_current_time, m_touch_down_time, m_last_release_time,
          m_total_movement, m_accum_x, m_accum_y,
          out,        \* action returned by the last call
          op,         \* the last call
          h_open,     \* stream history: a DragStart is not yet closed by a DragEnd
          h_clicks,   \* stream history: number of Click actions returned so far by a
                      \* trace that is a chain of taps (saturates at 2)
          h_chain,    \* input history: "pure" while the trace is a chain of valid taps
          h_taps,     \* input history: valid taps completed while h_chain = "pure"
          h_late,     \* input history: the pending chain (or the chain the last call
                      \* reported) holds a tap whose press came multi_tap_window_ms
                      \* or more after the release of the tap before it
          h_final,    \* input history: the host has delivered its last sample and
                      \* only ticks follow
          h_first,    \* input history: the contact held now was pressed while no
                      \* tap chain was pending (the engine was not in
                      \* WAITING_FOR_TAP)
          h_travel    \* input history of the procedural engine: movement handed in
                      \* since its smoothed velocity was last zero

\* ------------------------------------------------------------------------
\* State of the procedural engine: trackpad_state_t, the action written by
\* the last call, and the timestamp of the last sample
\* ------------------------------------------------------------------------
VARIABLES c_state, c_touch_start, c_last_pos,
          c_touch_down_time, c_last_sample_time, c_last_tap_time,
          c_total_movement, c_button_held, c_tap_tap_pending,
          c_velocity_x_smooth, c_velocity_y_smooth,   \* px/s
          c_scroll_accum_v, c_scroll_accum_h,         \* 1/TRACKPAD_SCROLL_SENSITIVITY
          c_action,        \* *action after the last call
          c_op,            \* the last call
          c_timestamp_ms   \* timestamp of the last sample

\* ------------------------------------------------------------------------
\* State of the click queue of app_trackpad.c, the timestamp of the last poll
\* and the button reports the sink received
\* ------------------------------------------------------------------------
VARIABLES s_pending_clicks, s_click_phase, s_click_time,
          s_now,        \* now of the last iteration of trackpad_poll_task
          s_report,     \* button reports the last iteration delivered, in order
          h_n,          \* count of the last queue_clicks
          h_queues,     \* number of queue_clicks calls so far
          h_downs,      \* button-down reports since the last queue_clicks
          h_ups,        \* button-up reports since the last queue_clicks
          h_down_time,  \* now of the last button-down report
          h_up_time,    \* now of the last button-up report
          h_button      \* buttons of the last report the sink accepted

svars == <<s_pending_clicks, s_click_phase, s_click_time, s_now, s_report,
           h_n, h_queues, h_downs, h_ups, h_down_time, h_up_time, h_button>>

\* ------------------------------------------------------------------------
\* One call of app_hid_trackpad_send_click and the sink it talks to
\* ------------------------------------------------------------------------
VARIABLES hid_pc,         \* "idle", "running" (inside the call) or "returned"
          hid_rev,        \* which app_hid_trackpad_send_click was called
          hid_i,          \* milliseconds since the report was submitted
          hid_ready,      \* tud_hid_ready()
          hid_buttons,    \* the report
          hid_delivered,  \* tud_hid_mouse_report calls made for this report
          hid_ret,        \* result of the call
          h_ready_within, \* the sink was ready at one of the five attempt times
          h_calls         \* number of reports submitted so far

dvars == <<hid_pc, hid_rev, hid_i, hid_ready, hid_buttons, hid_delivered,
           hid_ret, h_ready_within, h_calls>>

\* ------------------------------------------------------------------------
\* One call of trackpad_get_zone: its arguments and what the two definitions
\* of the function return for them
\* ------------------------------------------------------------------------
VARIABLES z_x, z_y, z_w, z_h, z_zone, z_zone_cpp

zvars == <<z_x, z_y, z_w, z_h, z_zone, z_zone_cpp>>

\* ------------------------------------------------------------------------
\* Two trackpad_state_t values handed to the C API of trackpad_gesture.cpp
\* ------------------------------------------------------------------------
VARIABLES inst,     \* which trackpad_state_t the last call was given (0: none)
          h_held    \* the trackpad_state_t values whose own last touch event
                    \* was PRESSED or PRESSING after a PRESSED

ivars == <<inst, h_held>>

\* ------------------------------------------------------------------------
\* One finished contact put to the two tap tests: its duration, its net
\* displacement, its total movement, whether a tap is pending, and the answers
\* of trackpad_classify_tap and of is_tap
\* ------------------------------------------------------------------------
VARIABLES t_duration, t_net, t_total, t_pending, t_tap, t_is_tap

tvars == <<t_duration, t_net, t_total, t_pending, t_tap, t_is_tap>>

\* ------------------------------------------------------------------------
\* Two tasks at the engine object of trackpad_gesture.cpp: trackpad_poll_task
\* inside a call of the C API, and a task that calls trackpad_state_init
\* ------------------------------------------------------------------------
VARIABLES g_trackpad,   \* the object g_trackpad points at (0: nullptr)
          g_live,       \* the Trackpad objects constructed and not deleted
          p_pc,         \* trackpad_poll_task: "idle" or "inside" a call
          p_obj,        \* the object the call it is inside was entered with
          u_pc,         \* the other task: "idle", or "deleted" (after delete
                        \* g_trackpad, before g_trackpad = new Trackpad)
          h_inits       \* calls of trackpad_state_init by the other task

gvars == <<g_trackpad, g_live, p_pc, p_obj, u_pc, h_inits>>

\* ------------------------------------------------------------------------
\* Two tasks at the shared status of app_trackpad.c: trackpad_poll_task
\* writes s_status_x, s_status_y, s_status_touched, s_status_zone, the UI
\* task reads them in app_trackpad_get_status. Each field holds the number
\* of the polling-loop iteration that wrote it.
\* ------------------------------------------------------------------------
VARIABLES k_status,     \* the four shared fields, in the order written
          k_iter,       \* the iteration trackpad_poll_task is in
          k_wpc,        \* fields it has written in this iteration (0..4)
          k_snap,       \* the fields app_trackpad_get_status has copied
          k_rpc         \* fields its current call has copied (4: returned)

kvars == <<k_status, k_iter, k_wpc, k_snap, k_rpc>>

\* the variables of the two-task hosts
qvars == <<gvars, kvars>>

\* everything outside the two engines
pvars == <<svars, dvars, zvars, ivars, tvars, qvars>>

cvars == <<c_state, c_touch_start, c_last_pos, c_touch_down_time,
           c_last_sample_time, c_last_tap_time, c_total_movement, c_button_held,
           c_tap_tap_pending, c_velocity_x_smooth, c_velocity_y_smooth,
           c_scroll_accum_v, c_scroll_accum_h, c_action, c_op, c_timestamp_ms>>

mvars == <<m_state, m_touch_down, m_tap_count, m_last_x, m_last_y,
           m_touch_start_x, m_touch_start_y, m_current_time, m_touch_down_time,
           m_last_release_time, m_total_movement, m_accum_x, m_accum_y>>

hvars == <<out, op, h_open, h_clicks, h_chain, h_taps, h_late, h_first>>

\* the two engines
evars == <<mvars, hvars, h_final, h_travel, cvars>>

vars == <<evars, pvars>>

\* a plausible slip in Trackpad::reset: the tap chain survives it
ResetFields_keepTaps ==
    /\ m_state' = "IDLE"
    /\ m_touch_down' = FALSE
    /\ m_tap_count' = m_tap_count
    /\ m_last_x' = 0
    /\ m_last_y' = 0
    /\ m_touch_start_x' = 0
    /\ m_touch_start_y' = 0
    /\ m_touch_down_time' = 0
    /\ m_last_release_time' = 0
    /\ m_total_movement' = 0
    /\ m_accum_x' = 0
    /\ m_accum_y' = 0

\* Trackpad::reset (m_current_time is not touched by it)
ResetFields ==
    /\ m_state' = "IDLE"
    /\ m_touch_down' = FALSE
    /\ m_tap_count' = 0
    /\ m_last_x' = 0
    /\ m_last_y' = 0
    /\ m_touch_start_x' = 0
    /\ m_touch_start_y' = 0
    /\ m_touch_down_time' = 0
    /\ m_last_release_time' = 0
    /\ m_total_movement' = 0
    /\ m_accum_x' = 0
    /\ m_accum_y' = 0

\* trackpad_action_t
ActionC(t, x, y, v, h) == [type |-> t, dx |-> x, dy |-> y, scroll_v |-> v, scroll_h |-> h]

NoActionC == ActionC("NONE", 0, 0, 0, 0)

\* memset(state, 0, sizeof(*state)); state->state = TRACKPAD_STATE_IDLE
ClearedC ==
    /\ c_state' = "IDLE"
    /\ c_touch_start' = <<0, 0>>
    /\ c_last_pos' = <<0, 0>>
    /\ c_touch_down_time' = 0
    /\ c_last_sample_time' = 0
    /\ c_last_tap_time' = 0
    /\ c_total_movement' = 0
    /\ c_button_held' = FALSE
    /\ c_tap_tap_pending' = FALSE
    /\ c_velocity_x_smooth' = 0
    /\ c_velocity_y_smooth' = 0
    /\ c_scroll_accum_v' = 0
    /\ c_scroll_accum_h' = 0

\* trackpad_state_init
InitC ==
    /\ c_state = "IDLE"
    /\ c_touch_start = <<0, 0>>
    /\ c_last_pos = <<0, 0>>
    /\ c_touch_down_time = 0
    /\ c_last_sample_time = 0
    /\ c_last_tap_time = 0
    /\ c_total_movement = 0
    /\ c_button_held = FALSE
    /\ c_tap_tap_pending = FALSE
    /\ c_velocity_x_smooth = 0
    /\ c_velocity_y_smooth = 0
    /\ c_scroll_accum_v = 0
    /\ c_scroll_accum_h = 0
    /\ c_action = NoActionC
    /\ c_op = "init"
    /\ c_timestamp_ms = 0

\* the static initialisers of the click queue; nothing polled yet
InitSeq ==
    /\ s_pending_clicks = 0
    /\ s_click_phase = 0
    /\ s_click_time = 0
    /\ s_now = 0
    /\ s_report = <<>>
    /\ h_n = 0
    /\ h_queues = 0
    /\ h_downs = 0
    /\ h_ups = 0
    /\ h_down_time = 0
    /\ h_up_time = 0
    /\ h_button = 0

\* no report submitted yet
InitHid ==
    /\ hid_pc = "idle"
    /\ hid_rev = "none"
    /\ hid_i = 0
    /\ hid_ready = TRUE
    /\ hid_buttons = 0
    /\ hid_delivered = 0
    /\ hid_ret = "NONE"
    /\ h_ready_within = FALSE
    /\ h_calls = 0

\* trackpad_get_zone not called yet
InitZ ==
    /\ z_x = 0
    /\ z_y = 0
    /\ z_w = 0
    /\ z_h = 0
    /\ z_zone = "NONE"
    /\ z_zone_cpp = "NONE"

\* app_trackpad_init has called trackpad_state_init (one object, pointed at
\* by g_trackpad); no task is inside a call
InitG ==
    /\ g_trackpad = 1
    /\ g_live = {1}
    /\ p_pc = "idle"
    /\ p_obj = 0
    /\ u_pc = "idle"
    /\ h_inits = 0

\* the initialisers of the shared status; no iteration and no call of
\* app_trackpad_get_status is under way
InitK ==
    /\ k_status = <<0, 0, 0, 0>>
    /\ k_iter = 0
    /\ k_wpc = 4
    /\ k_snap = <<0, 0, 0, 0>>
    /\ k_rpc = 4

\* no trackpad_state_t was given an event yet
InitI ==
    /\ inst = 0
    /\ h_held = {}

\* no contact put to the tap tests yet
InitT ==
    /\ t_duration = 0
    /\ t_net = 0
    /\ t_total = 0
    /\ t_pending = FALSE
    /\ t_tap = "unset"
    /\ t_is_tap = FALSE

\* Trackpad::Trackpad (the constructor calls reset()) and trackpad_state_init
InitEngines ==
    /\ m_state = "IDLE"
    /\ m_touch_down = FALSE
    /\ m_tap_count = 0
    /\ m_last_x = 0
    /\ m_last_y = 0
    /\ m_touch_start_x = 0
    /\ m_touch_start_y = 0
    /\ m_current_time = 0
    /\ m_touch_down_time = 0
    /\ m_last_release_time = 0
    /\ m_total_movement = 0
    /\ m_accum_x = 0
    /\ m_accum_y = 0
    /\ out = NoAction
    /\ op = "init"
    /\ h_open = FALSE
    /\ h_clicks = 0
    /\ h_chain = "pure"
    /\ h_taps = 0
    /\ h_late = FALSE
    /\ h_final = FALSE
    /\ h_first = FALSE
    /\ h_travel = 0
    /\ InitC

\* the state after construction
Init == InitEngines /\ InitSeq /\ InitHid /\ InitZ /\ InitI /\ InitT /\ InitG /\ InitK

\* the same, with the arguments of the call of trackpad_get_zone chosen
InitZone ==
    /\ InitEngines
    /\ InitSeq
    /\ InitHid
    /\ InitI
    /\ InitT
    /\ InitG
    /\ InitK
    /\ z_x \in ZoneXs
    /\ z_y \in ZoneYs
    /\ z_w \in ZoneSizes
    /\ z_h \in ZoneSizes
    /\ z_zone = "NONE"
    /\ z_zone_cpp = "NONE"

\* Trackpad::calculateAcceleration, in tenths
calculateAcceleration(velocity_pps) ==
    LET normalized == IF velocity_pps < 0 THEN 0
                      ELSE Min(velocity_pps, accel_velocity_scale)
    IN  accel_min + ((accel_max - accel_min) * normalized) \div accel_velocity_scale

\* a plausible slip in emitPendingClicks: the switch falls to the default
\* one case early
emitPendingClicks_offByOne(n) ==
    IF n = 0 THEN NoAction
    ELSE Action(CASE n = 1 -> "CLICK"
                  [] n = 2 -> "DOUBLE_CLICK"
                  [] OTHER -> "QUAD_CLICK", 0, 0)

\* Trackpad::emitPendingClicks: the action it returns for a tap count
\* (it always leaves m_tap_count = 0 and m_state = IDLE)
emitPendingClicks(n) ==
    IF n = 0 THEN NoAction
    ELSE Action(CASE n = 1 -> "CLICK"
                  [] n = 2 -> "DOUBLE_CLICK"
                  [] n = 3 -> "TRIPLE_CLICK"
                  [] OTHER -> "QUAD_CLICK", 0, 0)

\* a plausible slip in the expiry test of tick: == for >=
windowExpired_onlyAtWindow(since_release) ==
    since_release = multi_tap_window_ms

\* the expiry test of Trackpad::tick
windowExpired(since_release) ==
    since_release >= multi_tap_window_ms

\* uint8_t m_tap_count; m_tap_count++
IncTapCount(n) == (n + 1) % 256

\* ------------------------------------------------------------------------
\* History of the returned action stream (not part of the engine)
\* ------------------------------------------------------------------------
Record(o, a) ==
    /\ op' = o
    /\ out' = a
    /\ h_open' = IF a.type = "DRAG_START" THEN TRUE
                 ELSE IF a.type = "DRAG_END" THEN FALSE ELSE h_open
    /\ h_first' = IF o = "pressed" THEN m_state # "WAITING_FOR_TAP"
                  ELSE IF o \in {"released", "reset"} THEN FALSE ELSE h_first

\* what a call does to the input history h_chain / h_taps / h_late
Track(chain, taps, join) ==
    /\ h_chain' = chain
    /\ h_taps' = IF chain = "broken" THEN 0 ELSE taps
    /\ h_late' = IF out'.type \in ClickTypes THEN h_late
                 ELSE IF m_tap_count' = 0 THEN FALSE
                 ELSE h_late \/ join
    /\ h_clicks' = IF chain = "broken" THEN 0
                   ELSE IF out'.type \in ClickTypes THEN Min(h_clicks + 1, 2)
                   ELSE h_clicks

\* a tap as both the design and the class define it: released after more than
\* the minimum and less than the maximum duration, with total movement and
\* net displacement inside the tap bound
ValidTap(duration, displacement, total) ==
    /\ duration > TRACKPAD_TAP_MIN_DURATION_MS
    /\ duration < tap_max_duration_ms
    /\ total <= tap_max_movement_px
    /\ displacement < tap_max_movement_px

\* ------------------------------------------------------------------------
\* Operations of class Trackpad
\* ------------------------------------------------------------------------

\* Trackpad::processInput(PRESSED) -> handlePressed
handlePressed(x, y, t) ==
    /\ m_current_time' = t
    /\ m_touch_down' = TRUE
    /\ m_last_x' = x
    /\ m_last_y' = y
    /\ m_touch_start_x' = x
    /\ m_touch_start_y' = y
    /\ m_touch_down_time' = t
    /\ m_total_movement' = 0
    /\ m_accum_x' = 0
    /\ m_accum_y' = 0
    /\ m_state' = IF m_state = "WAITING_FOR_TAP" THEN "WAITING_FOR_TAP" ELSE "MOVING"
    /\ UNCHANGED <<m_tap_count, m_last_release_time>>
    /\ Record("pressed", NoAction)
    /\ Track(IF h_chain = "pure" /\ ~m_touch_down
                  /\ (h_taps = 0 \/ t - m_last_release_time < multi_tap_window_ms)
             THEN "pure" ELSE "broken",
             h_taps, FALSE)

\* a plausible slip: the handlers do not test m_touch_down
noTouchDown_untested == FALSE

\* if (!m_touch_down) return TrackpadAction(); of handlePressing and
\* handleReleased
noTouchDown == ~m_touch_down

\* is_tap of Trackpad::handleReleased
is_tap(duration, total, displacement) ==
    /\ duration <= tap_max_duration_ms
    /\ total <= tap_max_movement_px
    /\ displacement <= tap_max_movement_px

\* Trackpad::processInput(RELEASED) -> handleReleased
handleReleased(x, y, t) ==
    LET duration == U32Sub(t, m_touch_down_time)
        displacement == Abs(x - m_touch_start_x) + Abs(y - m_touch_start_y)
        tap == is_tap(duration, m_total_movement, displacement)
        lateJoin == m_tap_count >= 1
                    /\ m_touch_down_time - m_last_release_time >= multi_tap_window_ms
    IN
    /\ m_current_time' = t
    /\ IF noTouchDown
       THEN /\ UNCHANGED <<m_state, m_touch_down, m_tap_count, m_last_release_time>>
            /\ Record("released", NoAction)
            /\ Track("broken", h_taps, FALSE)
       ELSE /\ m_touch_down' = FALSE
            /\ m_last_release_time' = t
            /\ IF m_state = "DRAGGING"
               THEN /\ m_state' = "IDLE"
                    /\ m_tap_count' = 0
                    /\ Record("released", Action("DRAG_END", 0, 0))
                    /\ Track("broken", h_taps, FALSE)
               ELSE IF tap
               THEN /\ m_tap_count' = IncTapCount(m_tap_count)
                    /\ m_state' = "WAITING_FOR_TAP"
                    /\ Record("released", NoAction)
                    /\ IF h_chain = "pure"
                          /\ ValidTap(duration, displacement, m_total_movement)
                       THEN Track("pure", h_taps + 1, lateJoin)
                       ELSE Track("broken", h_taps, lateJoin)
               ELSE /\ m_tap_count' = 0
                    /\ m_state' = "IDLE"
                    /\ Record("released", emitPendingClicks(m_tap_count))
                    /\ Track("broken", h_taps, FALSE)
    /\ UNCHANGED <<m_last_x, m_last_y, m_touch_start_x, m_touch_start_y,
                   m_touch_down_time, m_total_movement, m_accum_x, m_accum_y>>

\* a plausible slip in Trackpad::tick: any held contact is promoted
holdPromotes_anyContact(hold_time) ==
    m_touch_down /\ hold_time >= drag_hold_time_ms

\* the test of Trackpad::tick that turns a held contact into a drag
holdPromotes(hold_time) ==
    m_state = "WAITING_FOR_TAP" /\ m_touch_down /\ hold_time >= drag_hold_time_ms

\* Trackpad::tick
tick(t) ==
    LET hold_time == U32Sub(t, m_touch_down_time)
        since_release == U32Sub(t, m_last_release_time)
        expired == ~m_touch_down /\ h_taps >= 1
                   /\ since_release >= multi_tap_window_ms
        chain == IF h_chain = "pure" /\ expired /\ h_taps <= 4 THEN "done"
                 ELSE IF h_chain = "pure" /\ ~expired
                         /\ ~(m_touch_down /\ hold_time >= tap_max_duration_ms)
                 THEN "pure" ELSE "broken"
    IN
    /\ m_current_time' = t
    /\ IF holdPromotes(hold_time)
       THEN /\ m_state' = "DRAGGING"
            /\ m_tap_count' = 0
            /\ Record("tick", Action("DRAG_START", 0, 0))
       ELSE IF m_state = "WAITING_FOR_TAP" /\ ~m_touch_down
               /\ windowExpired(since_release)
       THEN /\ m_state' = "IDLE"
            /\ m_tap_count' = 0
            /\ Record("tick", emitPendingClicks(m_tap_count))
       ELSE /\ UNCHANGED <<m_state, m_tap_count>>
            /\ Record("tick", NoAction)
    /\ Track(chain, h_taps, FALSE)
    /\ UNCHANGED <<m_touch_down, m_last_x, m_last_y, m_touch_start_x, m_touch_start_y,
                   m_touch_down_time, m_last_release_time, m_total_movement,
                   m_accum_x, m_accum_y>>

\* Trackpad::reset (trackpad_state_reset of the wrapper); returns nothing
reset ==
    /\ ResetFields
    /\ UNCHANGED m_current_time
    /\ Record("reset", NoAction)
    /\ Track("broken", h_taps, FALSE)

\* Trackpad::processInput(PRESSING) -> handlePressing
handlePressing(x, y, t) ==
    LET raw_dx == x - m_last_x
        raw_dy == y - m_last_y
        total == m_total_movement + Abs(raw_dx) + Abs(raw_dy)
        cancel == m_state = "WAITING_FOR_TAP" /\ total > tap_max_movement_px
        pending == IF cancel THEN emitPendingClicks(m_tap_count) ELSE NoAction
        state1 == IF cancel THEN "MOVING" ELSE m_state
        count1 == IF cancel THEN 0 ELSE m_tap_count
        speed == (Abs(raw_dx) + Abs(raw_dy)) * SpeedFactor
        accel == calculateAcceleration(speed)
        acc_x == m_accum_x + raw_dx * accel
        acc_y == m_accum_y + raw_dy * accel
        chain == IF h_chain = "pure" /\ m_touch_down
                    /\ total <= tap_max_movement_px
                    /\ t - m_touch_down_time < tap_max_duration_ms
                 THEN "pure" ELSE "broken"
    IN
    /\ m_current_time' = t
    /\ UNCHANGED <<m_touch_down, m_touch_start_x, m_touch_start_y,
                   m_touch_down_time, m_last_release_time>>
    /\ IF noTouchDown
       THEN /\ UNCHANGED <<m_state, m_tap_count, m_last_x, m_last_y,
                           m_total_movement, m_accum_x, m_accum_y>>
            /\ Record("pressing", NoAction)
            /\ Track("broken", h_taps, FALSE)
       ELSE /\ m_total_movement' = total
            /\ m_last_x' = x
            /\ m_last_y' = y
            /\ IF \/ (raw_dx = 0 /\ raw_dy = 0)
                  \/ (Abs(raw_dx) < anti_wiggle_px /\ Abs(raw_dy) < anti_wiggle_px)
               THEN /\ UNCHANGED <<m_state, m_tap_count, m_accum_x, m_accum_y>>
                    /\ Record("pressing", NoAction)
                    /\ Track(chain, h_taps, FALSE)
               ELSE IF hasAction(pending)
               THEN /\ m_state' = "MOVING"
                    /\ m_tap_count' = 0
                    /\ UNCHANGED <<m_accum_x, m_accum_y>>
                    /\ Record("pressing", pending)
                    /\ Track(chain, h_taps, FALSE)
               ELSE \E out_dx \in Int16Cast(TruncDiv(acc_x, AccumScale)),
                       out_dy \in Int16Cast(TruncDiv(acc_y, AccumScale)) :
                    /\ m_accum_x' = acc_x - out_dx * AccumScale
                    /\ m_accum_y' = acc_y - out_dy * AccumScale
                    /\ m_tap_count' = count1
                    /\ IF out_dx = 0 /\ out_dy = 0
                       THEN /\ m_state' = state1
                            /\ Record("pressing", NoAction)
                       ELSE IF state1 = "DRAGGING"
                       THEN /\ m_state' = state1
                            /\ Record("pressing", Action("DRAG_MOVE", out_dx, out_dy))
                       ELSE /\ m_state' = "MOVING"
                            /\ Record("pressing", Action("MOVE", out_dx, out_dy))
                    /\ Track(chain, h_taps, FALSE)

\* ------------------------------------------------------------------------
\* The host: any call, at any position, at a timestamp not before the last
\* ------------------------------------------------------------------------
Pressed ==
    \E x \in TouchXs, dt \in TimeSteps :
        /\ m_current_time + dt <= MaxTime
        /\ handlePressed(x, TouchY, m_current_time + dt)
        /\ UNCHANGED <<h_final, h_travel, cvars, pvars>>

Pressing ==
    \E x \in TouchXs, dt \in TimeSteps :
        /\ m_current_time + dt <= MaxTime
        /\ m_total_movement <= MaxMovement
        /\ handlePressing(x, TouchY, m_current_time + dt)
        /\ UNCHANGED <<h_final, h_travel, cvars, pvars>>

Released ==
    \E x \in TouchXs, dt \in TimeSteps :
        /\ m_current_time + dt <= MaxTime
        /\ m_tap_count < MaxTaps
        /\ handleReleased(x, TouchY, m_current_time + dt)
        /\ UNCHANGED <<h_final, h_travel, cvars, pvars>>

Tick ==
    \E dt \in TimeSteps :
        /\ m_current_time + dt <= MaxTime
        /\ tick(m_current_time + dt)
        /\ UNCHANGED <<h_final, h_travel, cvars, pvars>>

Reset == reset /\ UNCHANGED <<h_final, h_travel, cvars, pvars>>

Next == Pressed \/ Pressing \/ Released \/ Tick \/ Reset

Spec == Init /\ [][Next]_vars


\* ------------------------------------------------------------------------
\* The host that builds engines one after the other through the wrapper
\* ------------------------------------------------------------------------
\* trackpad_state_init of trackpad_gesture.cpp, called for a further
\* trackpad_state_t: g_trackpad already points to the Trackpad the first call
\* created, so no Trackpad is constructed and the existing one is left as it
\* is; only *state is cleared.
trackpad_state_init ==
    /\ UNCHANGED mvars
    /\ Record("init", NoAction)
    /\ Track("broken", h_taps, FALSE)

StateInit == trackpad_state_init /\ UNCHANGED <<h_final, h_travel, cvars, pvars>>

NextInit == Next \/ StateInit

SpecInit == Init /\ [][NextInit]_vars


\* ------------------------------------------------------------------------
\* The host whose clock is not monotonic: any call at any timestamp
\* ------------------------------------------------------------------------
BackPressed ==
    \E x \in TouchXs, t \in BackTimes :
        /\ handlePressed(x, TouchY, t)
        /\ UNCHANGED <<h_final, h_travel, cvars, pvars>>

BackPressing ==
    \E x \in TouchXs, t \in BackTimes :
        /\ m_total_movement <= MaxMovement
        /\ handlePressing(x, TouchY, t)
        /\ UNCHANGED <<h_final, h_travel, cvars, pvars>>

BackReleased ==
    \E x \in TouchXs, t \in BackTimes :
        /\ m_tap_count < MaxTaps
        /\ handleReleased(x, TouchY, t)
        /\ UNCHANGED <<h_final, h_travel, cvars, pvars>>

BackTick ==
    \E t \in BackTimes :
        /\ tick(t)
        /\ UNCHANGED <<h_final, h_travel, cvars, pvars>>

NextBack == BackPressed \/ BackPressing \/ BackReleased \/ BackTick

SpecBack == Init /\ [][NextBack]_vars

\* ------------------------------------------------------------------------
\* Two trackpad_state_t values, both initialised by trackpad_state_init, used
\* through the C API of trackpad_gesture.cpp: trackpad_process_input does not
\* read its state argument and hands every event to the one g_trackpad;
\* trackpad_tick has no state argument
\* ------------------------------------------------------------------------
TwoPressed ==
    \E i \in Instances, x \in TwoXs, dt \in TwoSteps :
        /\ m_current_time + dt <= MaxTwoTime
        /\ handlePressed(x, TouchY, m_current_time + dt)
        /\ inst' = i
        /\ h_held' = h_held \cup {i}
        /\ UNCHANGED <<h_final, h_travel, cvars, svars, dvars, zvars, tvars, qvars>>

TwoPressing ==
    \E i \in Instances, x \in TwoXs, dt \in TwoSteps :
        /\ m_current_time + dt <= MaxTwoTime
        /\ m_total_movement <= MaxMovement
        /\ handlePressing(x, TouchY, m_current_time + dt)
        /\ inst' = i
        /\ UNCHANGED <<h_held, h_final, h_travel, cvars, svars, dvars, zvars, tvars, qvars>>

TwoReleased ==
    \E i \in Instances, x \in TwoXs, dt \in TwoSteps :
        /\ m_current_time + dt <= MaxTwoTime
        /\ m_tap_count < MaxTaps
        /\ handleReleased(x, TouchY, m_current_time + dt)
        /\ inst' = i
        /\ h_held' = h_held \ {i}
        /\ UNCHANGED <<h_final, h_travel, cvars, svars, dvars, zvars, tvars, qvars>>

TwoTick ==
    \E dt \in TwoSteps :
        /\ m_current_time + dt <= MaxTwoTime
        /\ tick(m_current_time + dt)
        /\ UNCHANGED <<h_final, h_travel, cvars, pvars>>

NextTwo == TwoPressed \/ TwoPressing \/ TwoReleased \/ TwoTick

SpecTwo == Init /\ [][NextTwo]_vars

\* ------------------------------------------------------------------------
\* trackpad_poll_task and a task that calls app_trackpad_update_config, which
\* calls trackpad_state_init: the definition of trackpad_gesture.cpp that
\* deletes the object g_trackpad points at and constructs another. No lock
\* is taken by either task. A call of trackpad_process_input or trackpad_tick
\* is two steps: it tests and reads g_trackpad, then runs the member function
\* on the object it read.
\* ------------------------------------------------------------------------
RaceSame == <<h_final, h_travel, cvars, svars, dvars, zvars, ivars, tvars, kvars>>

\* if (!g_trackpad ...) return false; ... g_trackpad->
RaceEnter ==
    /\ p_pc = "idle"
    /\ g_trackpad # 0
    /\ p_pc' = "inside"
    /\ p_obj' = g_trackpad
    /\ UNCHANGED <<g_trackpad, g_live, u_pc, h_inits, evars, svars, dvars, zvars,
                   ivars, tvars, kvars>>

\* the call returns
RaceReturn ==
    /\ p_pc = "inside"
    /\ p_pc' = "idle"
    /\ UNCHANGED <<g_trackpad, g_live, p_obj, u_pc, h_inits>>

RacePressed ==
    \E x \in TwoXs, dt \in TwoSteps :
        /\ p_obj \in g_live
        /\ m_current_time + dt <= MaxTwoTime
        /\ RaceReturn
        /\ handlePressed(x, TouchY, m_current_time + dt)
        /\ UNCHANGED RaceSame

RacePressing ==
    \E x \in TwoXs, dt \in TwoSteps :
        /\ p_obj \in g_live
        /\ m_current_time + dt <= MaxTwoTime
        /\ m_total_movement <= MaxMovement
        /\ RaceReturn
        /\ handlePressing(x, TouchY, m_current_time + dt)
        /\ UNCHANGED RaceSame

RaceReleased ==
    \E x \in TwoXs, dt \in TwoSteps :
        /\ p_obj \in g_live
        /\ m_current_time + dt <= MaxTwoTime
        /\ m_tap_count < MaxTaps
        /\ RaceReturn
        /\ handleReleased(x, TouchY, m_current_time + dt)
        /\ UNCHANGED RaceSame

RaceTick ==
    \E dt \in TwoSteps :
        /\ p_obj \in g_live
        /\ m_current_time + dt <= MaxTwoTime
        /\ RaceReturn
        /\ tick(m_current_time + dt)
        /\ UNCHANGED RaceSame

\* the member function runs on an object that was deleted: the behaviour is
\* undefined, the call may return any action
RaceStale ==
    \E t \in {"NONE", "MOVE", "DRAG_START", "DRAG_END"} \cup ClickTypes :
        /\ p_obj \notin g_live
        /\ RaceReturn
        /\ UNCHANGED mvars
        /\ Record("stale", Action(t, 0, 0))
        /\ Track("broken", h_taps, FALSE)
        /\ UNCHANGED RaceSame

\* trackpad_state_init: if (g_trackpad) { delete g_trackpad; }
InitDelete ==
    /\ u_pc = "idle"
    /\ h_inits < MaxInits
    /\ u_pc' = "deleted"
    /\ g_live' = g_live \ {g_trackpad}
    /\ h_inits' = h_inits + 1
    /\ UNCHANGED <<g_trackpad, p_pc, p_obj, evars, svars, dvars, zvars, ivars,
                   tvars, kvars>>

\* trackpad_state_init: g_trackpad = new Trackpad(hres, vres); the fields of
\* the new object are those the constructor leaves (m_current_time, which no
\* member function reads before it writes it, keeps the time of the host)
InitNew ==
    /\ u_pc = "deleted"
    /\ u_pc' = "idle"
    /\ g_trackpad' = h_inits + 1
    /\ g_live' = g_live \cup {h_inits + 1}
    /\ ResetFields
    /\ UNCHANGED m_current_time
    /\ Record("init", NoAction)
    /\ Track("broken", h_taps, FALSE)
    /\ UNCHANGED <<p_pc, p_obj, h_inits>>
    /\ UNCHANGED RaceSame

NextRace == RaceEnter \/ RacePressed \/ RacePressing \/ RaceReleased \/ RaceTick
            \/ RaceStale \/ InitDelete \/ InitNew

SpecRace == Init /\ [][NextRace]_vars

\* ------------------------------------------------------------------------
\* trackpad_poll_task writing the shared status and the UI task copying it in
\* app_trackpad_get_status. The four fields are separate volatile objects,
\* written and read one after the other with no lock; the poll task (priority
\* 10) may run between any two reads.
\* ------------------------------------------------------------------------
StatusSame == <<evars, svars, dvars, zvars, ivars, tvars, gvars>>

\* while (1) { ...: the next iteration of the polling loop begins
PollIteration ==
    /\ k_wpc = 4
    /\ k_iter < MaxIters
    /\ k_iter' = k_iter + 1
    /\ k_wpc' = 0
    /\ UNCHANGED <<k_status, k_snap, k_rpc>>
    /\ UNCHANGED StatusSame

\* s_status_x = x; s_status_y = y; s_status_touched = touched;
\* s_status_zone = trackpad_get_zone(...): one assignment
WriteStatus ==
    /\ k_wpc < 4
    /\ k_status' = [k_status EXCEPT ![k_wpc + 1] = k_iter]
    /\ k_wpc' = k_wpc + 1
    /\ UNCHANGED <<k_iter, k_snap, k_rpc>>
    /\ UNCHANGED StatusSame

\* app_trackpad_get_status is called
GetStatus ==
    /\ k_rpc = 4
    /\ k_rpc' = 0
    /\ UNCHANGED <<k_status, k_iter, k_wpc, k_snap>>
    /\ UNCHANGED StatusSame

\* status->x = s_status_x; status->y = s_status_y; status->touched =
\* s_status_touched; status->zone = s_status_zone: one assignment
ReadStatus ==
    /\ k_rpc < 4
    /\ k_snap' = [k_snap EXCEPT ![k_rpc + 1] = k_status[k_rpc + 1]]
    /\ k_rpc' = k_rpc + 1
    /\ UNCHANGED <<k_status, k_iter, k_wpc>>
    /\ UNCHANGED StatusSame

NextStatus == PollIteration \/ WriteStatus \/ GetStatus \/ ReadStatus

SpecStatus == Init /\ [][NextStatus]_vars

\* ------------------------------------------------------------------------
\* The host that only taps: it presses, moves, releases and ticks as long as
\* the trace is a chain of valid taps, each pressed within the multi-tap
\* window of the release before it, and stops at the first call that is not
\* ------------------------------------------------------------------------
TapPressed ==
    \E x \in TouchXs, dt \in TimeSteps :
        /\ h_chain = "pure"
        /\ m_current_time + dt <= MaxChainTime
        /\ handlePressed(x, TouchY, m_current_time + dt)
        /\ UNCHANGED <<h_final, h_travel, cvars, pvars>>

TapPressing ==
    \E x \in TouchXs, dt \in TimeSteps :
        /\ h_chain = "pure"
        /\ m_current_time + dt <= MaxChainTime
        /\ handlePressing(x, TouchY, m_current_time + dt)
        /\ UNCHANGED <<h_final, h_travel, cvars, pvars>>

TapReleased ==
    \E x \in TouchXs, dt \in TimeSteps :
        /\ h_chain = "pure"
        /\ m_current_time + dt <= MaxChainTime
        /\ m_tap_count < MaxTaps
        /\ handleReleased(x, TouchY, m_current_time + dt)
        /\ UNCHANGED <<h_final, h_travel, cvars, pvars>>

TapTick ==
    \E dt \in TimeSteps :
        /\ h_chain = "pure"
        /\ m_current_time + dt <= MaxChainTime
        /\ tick(m_current_time + dt)
        /\ UNCHANGED <<h_final, h_travel, cvars, pvars>>

NextTaps == TapPressed \/ TapPressing \/ TapReleased \/ TapTick

SpecTaps == Init /\ [][NextTaps]_vars

\* ------------------------------------------------------------------------
\* The host that stops: as the host of Spec until one Released that it makes
\* its last sample; from then on the poll loop only calls tick, each time
\* with a later timestamp (trackpad_poll_task calls trackpad_tick on every
\* iteration)
\* ------------------------------------------------------------------------
LivePressed ==
    \E x \in TouchXs, dt \in TimeSteps :
        /\ ~h_final
        /\ m_current_time + dt <= MaxLiveTime
        /\ handlePressed(x, TouchY, m_current_time + dt)
        /\ UNCHANGED <<h_final, h_travel, cvars, pvars>>

LivePressing ==
    \E x \in TouchXs, dt \in TimeSteps :
        /\ ~h_final
        /\ m_current_time + dt <= MaxLiveTime
        /\ m_total_movement <= MaxMovement
        /\ handlePressing(x, TouchY, m_current_time + dt)
        /\ UNCHANGED <<h_final, h_travel, cvars, pvars>>

LiveReleased ==
    \E x \in TouchXs, dt \in TimeSteps :
        /\ ~h_final
        /\ m_current_time + dt <= MaxLiveTime
        /\ m_tap_count < MaxTaps
        /\ handleReleased(x, TouchY, m_current_time + dt)
        /\ h_final' \in BOOLEAN
        /\ UNCHANGED <<h_travel, cvars, pvars>>

LiveTick ==
    \E dt \in TimeSteps :
        /\ ~h_final
        /\ m_current_time + dt <= MaxLiveTime
        /\ tick(m_current_time + dt)
        /\ UNCHANGED <<h_final, h_travel, cvars, pvars>>

LiveReset == ~h_final /\ Reset

FinalTick ==
    \E dt \in TimeSteps \ {0} :
        /\ h_final
        /\ m_current_time + dt <= MaxLiveTime + multi_tap_window_ms
        /\ tick(m_current_time + dt)
        /\ UNCHANGED <<h_final, h_travel, cvars, pvars>>

NextLive ==
    LivePressed \/ LivePressing \/ LiveReleased \/ LiveTick \/ LiveReset \/ FinalTick

SpecLive == Init /\ [][NextLive]_vars /\ WF_vars(FinalTick)

\* ------------------------------------------------------------------------
\* Pure helpers of the procedural engine (trackpad_gesture.c)
\* ------------------------------------------------------------------------
trackpad_get_zone(x, y, hr, vr, scroll_w, scroll_h) ==
    LET in_right == x >= hr - scroll_w
        in_bottom == y >= vr - scroll_h
    IN  IF in_right /\ in_bottom THEN "SCROLL_CORNER"
        ELSE IF in_right THEN "SCROLL_V"
        ELSE IF in_bottom THEN "SCROLL_H"
        ELSE "MAIN"

\* trackpad_get_zone as trackpad_gesture.cpp defines it
trackpad_get_zone_cpp(x, y, hr, vr, scroll_w, scroll_h) ==
    LET in_right == x >= hr - scroll_w
        in_top == y < scroll_h
    IN  IF in_right /\ in_top THEN "SCROLL_CORNER"
        ELSE IF in_right THEN "SCROLL_V"
        ELSE IF in_top THEN "SCROLL_H"
        ELSE "MAIN"

trackpad_filter_jitter(raw_delta, threshold) ==
    IF Abs(raw_delta) <= threshold THEN 0
    ELSE IF raw_delta > 0 THEN raw_delta - threshold ELSE raw_delta + threshold

trackpad_is_jitter(dx, dy, threshold) ==
    Abs(dx) <= threshold /\ Abs(dy) <= threshold

\* alpha * instant + (1 - alpha) * current, in px/s
trackpad_ewma_update(current_smooth, instant_value, alpha) ==
    TruncDiv(alpha * instant_value + (10 - alpha) * current_smooth, 10)

\* sqrtf(vx * vx + vy * vy), px/s.  At or above the last threshold of the
\* curve in one component the magnitude is at or above it too, and the curve
\* is flat from there.
VelocityMagnitude(vx, vy) ==
    IF Abs(vx) >= TRACKPAD_ACCEL_MAX_THRESHOLD \/ Abs(vy) >= TRACKPAD_ACCEL_MAX_THRESHOLD
    THEN TRACKPAD_ACCEL_MAX_THRESHOLD
    ELSE ISqrt(vx * vx + vy * vy)

\* the multiplier of trackpad_apply_acceleration, in 1/MultScale
AccelMultiplier(velocity_pps) ==
    IF velocity_pps < TRACKPAD_ACCEL_PRECISION_THRESHOLD
    THEN TRACKPAD_ACCEL_PRECISION_SENSITIVITY
    ELSE IF velocity_pps < TRACKPAD_ACCEL_LINEAR_THRESHOLD
    THEN TRACKPAD_ACCEL_PRECISION_SENSITIVITY
         + ((velocity_pps - TRACKPAD_ACCEL_PRECISION_THRESHOLD)
            * (TRACKPAD_ACCEL_BASE_SENSITIVITY - TRACKPAD_ACCEL_PRECISION_SENSITIVITY))
           \div (TRACKPAD_ACCEL_LINEAR_THRESHOLD - TRACKPAD_ACCEL_PRECISION_THRESHOLD)
    ELSE IF velocity_pps < TRACKPAD_ACCEL_MAX_THRESHOLD
    THEN LET curve == ISqrt(((velocity_pps - TRACKPAD_ACCEL_LINEAR_THRESHOLD)
                             * MultScale * MultScale)
                            \div (TRACKPAD_ACCEL_MAX_THRESHOLD
                                  - TRACKPAD_ACCEL_LINEAR_THRESHOLD))
         IN  TRACKPAD_ACCEL_BASE_SENSITIVITY
             + (curve * (TRACKPAD_ACCEL_MAX_MULTIPLIER - TRACKPAD_ACCEL_BASE_SENSITIVITY))
               \div MultScale
    ELSE TRACKPAD_ACCEL_MAX_MULTIPLIER

\* trackpad_apply_acceleration for an integer delta, result in 1/MultScale
\* (fabsf(delta) < 0.5 is delta = 0)
trackpad_apply_acceleration(delta, velocity_pps) ==
    IF delta = 0 THEN 0 ELSE delta * AccelMultiplier(velocity_pps)

trackpad_classify_tap(duration_ms, net_displacement, total_movement, pending) ==
    LET was_jitter == total_movement > 30 /\ net_displacement < 15
    IN  IF duration_ms < TRACKPAD_TAP_MIN_DURATION_MS THEN "TAP_NONE"
        ELSE IF duration_ms >= TRACKPAD_TAP_MAX_DURATION_MS THEN "TAP_NONE"
        ELSE IF net_displacement >= TRACKPAD_TAP_MOVE_THRESHOLD /\ ~was_jitter
        THEN "TAP_NONE"
        ELSE IF pending THEN "TAP_DOUBLE" ELSE "TAP_SINGLE"

\* a plausible slip in the PRESSING branch: the zone of the sample itself
PressingZone_ofSample(x, y) ==
    trackpad_get_zone(x, y, hres, vres, scroll_zone_w, scroll_zone_h)

\* the zone that decides what a PRESSING sample at <<x, y>> yields: the zone
\* of state->touch_start, whatever the sample's own position
PressingZone(x, y) ==
    trackpad_get_zone(c_touch_start[1], c_touch_start[2],
                      hres, vres, scroll_zone_w, scroll_zone_h)

\* what every call of trackpad_process_input leaves behind
ReturnC(o, t, a) ==
    /\ c_op' = o
    /\ c_timestamp_ms' = t
    /\ c_action' = a

\* ------------------------------------------------------------------------
\* trackpad_process_input
\* ------------------------------------------------------------------------

\* input->type == TRACKPAD_EVENT_PRESSED
process_input_PRESSED(x, y, t) ==
    LET zone == trackpad_get_zone(x, y, hres, vres, scroll_zone_w, scroll_zone_h)
        second == zone = "MAIN" /\ c_last_tap_time > 0
                  /\ U32Sub(t, c_last_tap_time) < TRACKPAD_DOUBLE_TAP_WINDOW_MS
    IN
    /\ c_touch_start' = <<x, y>>
    /\ c_last_pos' = <<x, y>>
    /\ c_touch_down_time' = t
    /\ c_last_sample_time' = t
    /\ c_total_movement' = 0
    /\ c_state' = "DOWN"
    /\ c_scroll_accum_v' = 0
    /\ c_scroll_accum_h' = 0
    /\ c_tap_tap_pending' = second
    /\ ReturnC("pressed", t,
               IF second THEN ActionC("SHOW_DRAG_INDICATOR", 0, 0, 0, 0) ELSE NoActionC)
    /\ UNCHANGED <<c_last_tap_time, c_button_held,
                   c_velocity_x_smooth, c_velocity_y_smooth>>

\* input->type == TRACKPAD_EVENT_PRESSING
process_input_PRESSING(x, y, t) ==
    LET raw_dx == x - c_last_pos[1]
        raw_dy == y - c_last_pos[2]
        dt_ms == IF t - c_last_sample_time = 0 THEN 1 ELSE U32Sub(t, c_last_sample_time)
        filtered_dx == trackpad_filter_jitter(raw_dx, TRACKPAD_JITTER_THRESHOLD)
        filtered_dy == trackpad_filter_jitter(raw_dy, TRACKPAD_JITTER_THRESHOLD)
        instant_vx == TruncDiv(filtered_dx * 1000, dt_ms)
        instant_vy == TruncDiv(filtered_dy * 1000, dt_ms)
        vx == trackpad_ewma_update(c_velocity_x_smooth, instant_vx,
                                   TRACKPAD_VELOCITY_ALPHA)
        vy == trackpad_ewma_update(c_velocity_y_smooth, instant_vy,
                                   TRACKPAD_VELOCITY_ALPHA)
        velocity_pps == VelocityMagnitude(vx, vy)
        total == c_total_movement + Abs(raw_dx) + Abs(raw_dy)
        zone == PressingZone(x, y)
        accum_v == c_scroll_accum_v + filtered_dy
        accum_h == c_scroll_accum_h + filtered_dx
        drag == c_tap_tap_pending /\ total > TRACKPAD_DRAG_MOVE_THRESHOLD
        state1 == IF drag THEN c_state
                  ELSE IF total > TRACKPAD_TAP_MOVE_THRESHOLD THEN "MOVING"
                  ELSE c_state
        accel_dx == trackpad_apply_acceleration(filtered_dx, velocity_pps)
        accel_dy == trackpad_apply_acceleration(filtered_dy, velocity_pps)
    IN
    /\ c_last_pos' = <<x, y>>
    /\ c_last_sample_time' = t
    /\ UNCHANGED <<c_touch_start, c_touch_down_time, c_last_tap_time, c_tap_tap_pending>>
    /\ IF trackpad_is_jitter(raw_dx, raw_dy, TRACKPAD_JITTER_THRESHOLD)
       THEN /\ UNCHANGED <<c_state, c_total_movement, c_button_held,
                           c_velocity_x_smooth, c_velocity_y_smooth,
                           c_scroll_accum_v, c_scroll_accum_h>>
            /\ ReturnC("pressing", t, NoActionC)
       ELSE
       /\ c_velocity_x_smooth' = vx
       /\ c_velocity_y_smooth' = vy
       /\ c_total_movement' = total
       /\ IF zone \in {"SCROLL_V", "SCROLL_CORNER"}
          THEN \E scroll_units \in Int8Cast(TruncDiv(accum_v, TRACKPAD_SCROLL_SENSITIVITY)) :
               /\ c_state' = "SCROLLING"
               /\ c_scroll_accum_v' = accum_v - scroll_units * TRACKPAD_SCROLL_SENSITIVITY
               /\ ReturnC("pressing", t,
                          IF scroll_units # 0
                          THEN ActionC("SCROLL_V", 0, 0, Int8Wrap(-scroll_units), 0)
                          ELSE NoActionC)
               /\ UNCHANGED <<c_scroll_accum_h, c_button_held>>
          ELSE IF zone = "SCROLL_H"
          THEN \E scroll_units \in Int8Cast(TruncDiv(accum_h, TRACKPAD_SCROLL_SENSITIVITY)) :
               /\ c_state' = "SCROLLING"
               /\ c_scroll_accum_h' = accum_h - scroll_units * TRACKPAD_SCROLL_SENSITIVITY
               /\ ReturnC("pressing", t,
                          IF scroll_units # 0
                          THEN ActionC("SCROLL_H", 0, 0, 0, scroll_units)
                          ELSE NoActionC)
               /\ UNCHANGED <<c_scroll_accum_v, c_button_held>>
          ELSE IF drag /\ c_state # "DRAGGING"
          THEN /\ c_state' = "DRAGGING"
               /\ c_button_held' = TRUE
               /\ ReturnC("pressing", t, ActionC("DRAG_START", 0, 0, 0, 0))
               /\ UNCHANGED <<c_scroll_accum_v, c_scroll_accum_h>>
          ELSE /\ c_state' = state1
               /\ UNCHANGED <<c_button_held, c_scroll_accum_v, c_scroll_accum_h>>
               /\ IF filtered_dx # 0 \/ filtered_dy # 0
                  THEN \E out_dx \in Int16Cast(RoundDiv(accel_dx, MultScale)),
                          out_dy \in Int16Cast(RoundDiv(accel_dy, MultScale)) :
                       ReturnC("pressing", t,
                               ActionC(IF state1 = "DRAGGING" THEN "DRAG_MOVE" ELSE "MOVE",
                                       out_dx, out_dy, 0, 0))
                  ELSE ReturnC("pressing", t, NoActionC)

\* input->type == TRACKPAD_EVENT_RELEASED
process_input_RELEASED(x, y, t) ==
    LET duration == U32Sub(t, c_touch_down_time)
        net_displacement == Abs(x - c_touch_start[1]) + Abs(y - c_touch_start[2])
        tap_result == trackpad_classify_tap(duration, net_displacement,
                                            c_total_movement, c_tap_tap_pending)
    IN
    /\ UNCHANGED <<c_touch_start, c_last_pos, c_touch_down_time, c_last_sample_time,
                   c_total_movement, c_scroll_accum_v, c_scroll_accum_h>>
    /\ c_state' = "IDLE"
    /\ IF c_state = "DRAGGING"
       THEN /\ c_button_held' = FALSE
            /\ c_last_tap_time' = 0
            /\ c_tap_tap_pending' = FALSE
            /\ c_velocity_x_smooth' = 0
            /\ c_velocity_y_smooth' = 0
            /\ ReturnC("released", t, ActionC("DRAG_END", 0, 0, 0, 0))
       ELSE IF c_state = "SCROLLING"
       THEN /\ c_last_tap_time' = 0
            /\ c_tap_tap_pending' = FALSE
            /\ UNCHANGED <<c_button_held, c_velocity_x_smooth, c_velocity_y_smooth>>
            /\ ReturnC("released", t, NoActionC)
       ELSE /\ c_velocity_x_smooth' = 0
            /\ c_velocity_y_smooth' = 0
            /\ UNCHANGED c_button_held
            /\ IF tap_result = "TAP_DOUBLE"
               THEN /\ c_last_tap_time' = 0
                    /\ c_tap_tap_pending' = FALSE
                    /\ ReturnC("released", t, ActionC("DOUBLE_CLICK", 0, 0, 0, 0))
               ELSE IF tap_result = "TAP_SINGLE"
               THEN /\ c_last_tap_time' = t
                    /\ UNCHANGED c_tap_tap_pending
                    /\ ReturnC("released", t, ActionC("CLICK_DOWN", 0, 0, 0, 0))
               ELSE /\ c_last_tap_time' = 0
                    /\ c_tap_tap_pending' = FALSE
                    /\ ReturnC("released", t, NoActionC)

\* trackpad_state_reset
trackpad_state_reset ==
    /\ ClearedC
    /\ c_op' = "reset"
    /\ c_action' = NoActionC
    /\ UNCHANGED c_timestamp_ms

\* ------------------------------------------------------------------------
\* The host of the procedural engine: any sample, in any order (samples may
\* be dropped or re-ordered), at a timestamp not before the last
\* ------------------------------------------------------------------------
\* movement since the smoothed velocity was last zero
TravelC(n) ==
    h_travel' = IF c_velocity_x_smooth' = 0 /\ c_velocity_y_smooth' = 0 THEN 0
                ELSE h_travel + n

PressedC ==
    \E p \in PointsC, dt \in TimeStepsC :
        /\ c_timestamp_ms + dt <= MaxTimeC
        /\ process_input_PRESSED(p[1], p[2], c_timestamp_ms + dt)
        /\ TravelC(0)
        /\ UNCHANGED <<mvars, hvars, h_final, pvars>>

PressingC ==
    \E p \in MovePointsC, dt \in TimeStepsC :
        /\ c_timestamp_ms + dt <= MaxTimeC
        /\ c_total_movement <= MaxMovementC
        /\ h_travel <= MaxMovementC
        /\ process_input_PRESSING(p[1], p[2], c_timestamp_ms + dt)
        /\ TravelC(c_total_movement' - c_total_movement)
        /\ UNCHANGED <<mvars, hvars, h_final, pvars>>

ReleasedC ==
    \E p \in MovePointsC, dt \in TimeStepsC :
        /\ c_timestamp_ms + dt <= MaxTimeC
        /\ process_input_RELEASED(p[1], p[2], c_timestamp_ms + dt)
        /\ TravelC(0)
        /\ UNCHANGED <<mvars, hvars, h_final, pvars>>

ResetC == trackpad_state_reset /\ TravelC(0) /\ UNCHANGED <<mvars, hvars, h_final, pvars>>

NextC == PressedC \/ PressingC \/ ReleasedC \/ ResetC

SpecC == Init /\ [][NextC]_vars

\* ------------------------------------------------------------------------
\* The procedural engine with a contact in the right strip whose samples may
\* lie far below the panel as well as far above it: input->y is an int32_t
\* that trackpad_process_input does not compare with vres. All samples carry
\* the same timestamp.
\* ------------------------------------------------------------------------
PressedFar ==
    \E p \in StripPoints :
        /\ process_input_PRESSED(p[1], p[2], c_timestamp_ms)
        /\ TravelC(0)
        /\ UNCHANGED <<mvars, hvars, h_final, pvars>>

PressingFar ==
    \E p \in FarPoints :
        /\ c_total_movement <= MaxMovementC
        /\ h_travel <= MaxMovementC
        /\ process_input_PRESSING(p[1], p[2], c_timestamp_ms)
        /\ TravelC(c_total_movement' - c_total_movement)
        /\ UNCHANGED <<mvars, hvars, h_final, pvars>>

ReleasedFar ==
    \E p \in StripPoints :
        /\ process_input_RELEASED(p[1], p[2], c_timestamp_ms)
        /\ TravelC(0)
        /\ UNCHANGED <<mvars, hvars, h_final, pvars>>

NextFar == PressedFar \/ PressingFar \/ ReleasedFar

SpecFar == Init /\ [][NextFar]_vars

\* ------------------------------------------------------------------------
\* The click queue of app_trackpad.c (ui_trackpad.c holds the same code)
\* ------------------------------------------------------------------------
QueueState(pending, phase, time) == [pending |-> pending, phase |-> phase, time |-> time]

\* queue_clicks
queue_clicks(count, now) == QueueState(count, 0, now)

\* a plausible slip: the count is not decremented when the button goes up
AfterRelease_keep(pending) == pending

\* s_pending_clicks-- of the release branch
AfterRelease(pending) == pending - 1

\* a plausible slip: the gap is measured against the press time
GapElapsed_pressTime(elapsed) == elapsed >= CLICK_PRESS_MS

\* elapsed >= CLICK_GAP_MS of the branch that starts the next click
GapElapsed(elapsed) == elapsed >= CLICK_GAP_MS

\* process_pending_clicks on queue state q, with a sink that is ready:
\* the queue state it leaves and the button reports it delivers
process_pending_clicks(now, q) ==
    LET elapsed == U32Sub(now, q.time)
    IN  IF q.pending = 0
        THEN [q |-> q, report |-> <<>>]
        ELSE IF q.phase = 0
        THEN [q |-> QueueState(q.pending, 1, now), report |-> <<"down">>]
        ELSE IF q.phase = 1 /\ elapsed >= CLICK_PRESS_MS
        THEN [q |-> QueueState(AfterRelease(q.pending), 2, now), report |-> <<"up">>]
        ELSE IF q.phase = 2 /\ q.pending > 0 /\ GapElapsed(elapsed)
        THEN [q |-> QueueState(q.pending, 0, q.time), report |-> <<>>]
        ELSE IF q.phase = 2 /\ q.pending = 0
        THEN [q |-> QueueState(q.pending, 0, q.time), report |-> <<>>]
        ELSE [q |-> q, report |-> <<>>]

\* number of reports r in the sequence of reports
CountReports(reports, r) == Cardinality({i \in DOMAIN reports : reports[i] = r})

\* One iteration of trackpad_poll_task at now = s_now + dt, as the click queue
\* sees it: execute_action queues n clicks when the engine returned Click{n}
\* (n = 0: no Click in this iteration), then process_pending_clicks runs.
\* sent tells whether app_hid_trackpad_send_click returned ESP_OK for the
\* report of this iteration; process_pending_clicks does not read the result.
PollSink(dt, n, sent) ==
    LET now == s_now + dt
        q0 == IF n > 0 THEN queue_clicks(n, now)
              ELSE QueueState(s_pending_clicks, s_click_phase, s_click_time)
        r == process_pending_clicks(now, q0)
        downs == CountReports(r.report, "down")
        ups == CountReports(r.report, "up")
    IN
    /\ IF n > 0 THEN now <= MaxSeqTime /\ h_queues < MaxQueues
       ELSE s_pending_clicks > 0 \/ s_report # <<>> \/ now <= MaxSeqTime
    /\ s_now' = now
    /\ s_pending_clicks' = r.q.pending
    /\ s_click_phase' = r.q.phase
    /\ s_click_time' = r.q.time
    /\ s_report' = r.report
    /\ h_n' = IF n > 0 THEN n ELSE h_n
    /\ h_queues' = IF n > 0 THEN h_queues + 1 ELSE h_queues
    /\ h_downs' = (IF n > 0 THEN 0 ELSE h_downs) + downs
    /\ h_ups' = (IF n > 0 THEN 0 ELSE h_ups) + ups
    /\ h_down_time' = IF downs > 0 THEN now ELSE h_down_time
    /\ h_up_time' = IF ups > 0 THEN now ELSE h_up_time
    /\ h_button' = IF sent /\ downs > 0 THEN 1
                   ELSE IF sent /\ ups > 0 THEN 0
                   ELSE h_button
    /\ UNCHANGED <<evars, dvars, zvars, ivars, tvars, qvars>>

\* the same with a sink that accepts every report
Poll(dt, n) == PollSink(dt, n, TRUE)

\* an iteration in which the engine returned no Click
PollOnly == \E dt \in PollSteps : Poll(dt, 0)

\* an iteration in which the engine returned Click{n}
PollClick == \E dt \in PollSteps, n \in 1..4 : Poll(dt, n)

\* an iteration without a Click, some time after the one before
PollLater == \E dt \in PollSteps \ {0} : Poll(dt, 0)

NextSeq == PollOnly \/ PollClick

\* the poll task never stops and its clock advances
SpecSeq == Init /\ [][NextSeq]_vars /\ WF_vars(PollLater)

\* ------------------------------------------------------------------------
\* The click queue in front of a sink that may be not ready at any report:
\* app_hid_trackpad_send_click then returns ESP_ERR_NOT_FINISHED and the
\* report is dropped
\* ------------------------------------------------------------------------
SinkPollOnly == \E dt \in PollSteps, sent \in BOOLEAN : PollSink(dt, 0, sent)

SinkPollClick == \E dt \in PollSteps, n \in 1..4, sent \in BOOLEAN : PollSink(dt, n, sent)

NextSink == SinkPollOnly \/ SinkPollClick

SpecSink == Init /\ [][NextSink]_vars

\* ------------------------------------------------------------------------
\* app_hid_trackpad_send_click.  The repository holds two definitions: the
\* one of app_hid_trackpad.c asks the sink once, the other one asks it up to
\* SEND_ATTEMPTS times, one millisecond apart.
\* ------------------------------------------------------------------------

\* the call returns
HidReturn(delivered, ret) ==
    /\ hid_pc' = "returned"
    /\ hid_delivered' = delivered
    /\ hid_ret' = ret

\* the host submits a button report; the sink is ready or not
HidSubmit ==
    \E rev \in {"app_hid_trackpad.c", "part_000"}, buttons \in {0, 1}, ready \in BOOLEAN :
        /\ hid_pc \in {"idle", "returned"}
        /\ h_calls < MaxCalls
        /\ hid_pc' = "running"
        /\ hid_rev' = rev
        /\ hid_i' = 0
        /\ hid_ready' = ready
        /\ hid_buttons' = buttons
        /\ hid_delivered' = 0
        /\ hid_ret' = "NONE"
        /\ h_ready_within' = ready
        /\ h_calls' = h_calls + 1
        /\ UNCHANGED <<evars, svars, zvars, ivars, tvars, qvars>>

\* app_hid_trackpad_send_click of app_hid_trackpad.c: one look at the sink
send_click_once ==
    /\ hid_pc = "running"
    /\ hid_rev = "app_hid_trackpad.c"
    /\ IF hid_ready
       THEN HidReturn(hid_delivered + 1, "ESP_OK")
       ELSE HidReturn(hid_delivered, "ESP_ERR_NOT_FINISHED")
    /\ UNCHANGED <<hid_rev, hid_i, hid_ready, hid_buttons, h_ready_within, h_calls>>
    /\ UNCHANGED <<evars, svars, zvars, ivars, tvars, qvars>>

\* app_hid_trackpad_send_click with the retry loop: iteration i of
\* for (int i = 0; i < 5; i++), ending in vTaskDelay(1) when the sink is busy
send_click_attempt ==
    /\ hid_pc = "running"
    /\ hid_rev = "part_000"
    /\ hid_i < SEND_ATTEMPTS
    /\ IF hid_ready
       THEN /\ HidReturn(hid_delivered + 1, "ESP_OK")
            /\ UNCHANGED <<hid_i, hid_ready, h_ready_within>>
       ELSE /\ hid_i' = hid_i + 1
            /\ hid_ready' \in BOOLEAN
            /\ h_ready_within' = (h_ready_within
                                  \/ (hid_i + 1 < SEND_ATTEMPTS /\ hid_ready'))
            /\ UNCHANGED <<hid_pc, hid_delivered, hid_ret>>
    /\ UNCHANGED <<hid_rev, hid_buttons, h_calls>>
    /\ UNCHANGED <<evars, svars, zvars, ivars, tvars, qvars>>

\* the same call after the loop: ESP_LOGW and return ESP_ERR_NOT_FINISHED
send_click_giveup ==
    /\ hid_pc = "running"
    /\ hid_rev = "part_000"
    /\ hid_i >= SEND_ATTEMPTS
    /\ HidReturn(hid_delivered, "ESP_ERR_NOT_FINISHED")
    /\ UNCHANGED <<hid_rev, hid_i, hid_ready, hid_buttons, h_ready_within, h_calls>>
    /\ UNCHANGED <<evars, svars, zvars, ivars, tvars, qvars>>

\* a millisecond passes after the call returned, while the times of the
\* five attempts are not over
HidElapse ==
    /\ hid_pc = "returned"
    /\ hid_i + 1 < SEND_ATTEMPTS
    /\ hid_i' = hid_i + 1
    /\ hid_ready' \in BOOLEAN
    /\ h_ready_within' = (h_ready_within \/ hid_ready')
    /\ UNCHANGED <<hid_pc, hid_rev, hid_buttons, hid_delivered, hid_ret, h_calls>>
    /\ UNCHANGED <<evars, svars, zvars, ivars, tvars, qvars>>

NextHid == HidSubmit \/ send_click_once \/ send_click_attempt \/ send_click_giveup
           \/ HidElapse

SpecHid == Init /\ [][NextHid]_vars

\* ------------------------------------------------------------------------
\* One call of trackpad_get_zone, answered by both definitions
\* ------------------------------------------------------------------------
GetZone ==
    /\ z_zone = "NONE"
    /\ z_zone' = trackpad_get_zone(z_x, z_y, hres, vres, z_w, z_h)
    /\ z_zone_cpp' = trackpad_get_zone_cpp(z_x, z_y, hres, vres, z_w, z_h)
    /\ UNCHANGED <<z_x, z_y, z_w, z_h, evars, svars, dvars, ivars, tvars, qvars>>

NextZone == GetZone

SpecZone == InitZone /\ [][NextZone]_vars

\* ------------------------------------------------------------------------
\* One finished contact, classified by trackpad_classify_tap and by the
\* is_tap test of Trackpad::handleReleased
\* ------------------------------------------------------------------------
InitTapClass ==
    /\ InitEngines
    /\ InitSeq
    /\ InitHid
    /\ InitZ
    /\ InitI
    /\ InitG
    /\ InitK
    /\ t_duration \in TapDurations
    /\ t_net \in TapDistances
    /\ t_total \in TapMovements
    /\ t_pending \in BOOLEAN
    /\ t_tap = "unset"
    /\ t_is_tap = FALSE

ClassifyTap ==
    /\ t_tap = "unset"
    /\ t_tap' = trackpad_classify_tap(t_duration, t_net, t_total, t_pending)
    /\ t_is_tap' = is_tap(t_duration, t_total, t_net)
    /\ UNCHANGED <<t_duration, t_net, t_total, t_pending, evars, svars, dvars,
                   zvars, ivars, qvars>>

NextTapClass == ClassifyTap

SpecTapClass == InitTapClass /\ [][NextTapClass]_vars

\* a duration that both tap tests accept
ValidTapDuration(d) ==
    /\ d > TRACKPAD_TAP_MIN_DURATION_MS
    /\ d < tap_max_duration_ms

C2_DragStartExactlyOnHold ==
    [][ op' = "tick" =>
          /\ (out'.type = "DRAG_START") <=>
                 /\ m_state = "WAITING_FOR_TAP"
                 /\ m_touch_down
                 /\ m_current_time' - m_touch_down_time >= drag_hold_time_ms
                 /\ m_total_movement <= tap_max_movement_px
          /\ out'.type = "DRAG_START" => (m_state' = "DRAGGING" /\ m_tap_count' = 0)
      ]_vars

\* ------------------------------------------------------------------------
\* C3: the returned action stream is well bracketed for every sequence of
\* events and ticks: DragStart and DragEnd strictly alternate, starting with
\* DragStart, and DragMove is returned only between a DragStart and the
\* DragEnd that follows it.
\* ------------------------------------------------------------------------
C3_DragWellBracketed ==
    [][ /\ out'.type = "DRAG_START" => ~h_open
        /\ out'.type \in {"DRAG_MOVE", "DRAG_END"} => h_open
      ]_vars

\* ------------------------------------------------------------------------
\* C4: after every call, button_held = true implies phase = Dragging.
\* ------------------------------------------------------------------------
C4_ButtonHeldOnlyWhileDragging ==
    c_button_held => c_state = "DRAGGING"

\* ------------------------------------------------------------------------
\* C5: after every call, tap_count is non-zero only while the engine is in
\* WaitingForChain.
\* ------------------------------------------------------------------------
C5_TapCountOnlyWhileWaiting ==
    m_tap_count # 0 => m_state = "WAITING_FOR_TAP"

\* ------------------------------------------------------------------------
\* C6: after every call, phase = Idle implies button_held = false and
\* tap_count = 0.  button_held is a field of the procedural engine and
\* tap_count a field of class Trackpad.
\* ------------------------------------------------------------------------
C6_IdleHoldsNothing ==
    /\ c_state = "IDLE" => ~c_button_held
    /\ m_state = "IDLE" => m_tap_count = 0

\* ------------------------------------------------------------------------
\* C7: when the last sample of a trace is a Released and ticks keep arriving
\* with timestamps that grow past the multi-tap window after it, the engine
\* eventually is in Idle; and an engine in Idle stays in Idle until the next
\* Pressed.
\* ------------------------------------------------------------------------
C7_IdleAfterFinalRelease ==
    /\ h_final ~> (m_state = "IDLE")
    /\ [][ (m_state = "IDLE" /\ op' # "pressed") => m_state' = "IDLE" ]_vars

C7_Witness ==
    /\ h_final
    /\ op = "tick"
    /\ out.type \in ClickTypes
    /\ m_state = "IDLE"

\* ------------------------------------------------------------------------
\* C8: a press that comes multi_tap_window_ms or more after the release of
\* the previous tap does not join that tap's chain: no double, triple or
\* quadruple click reports a chain that holds such a tap.
\* ------------------------------------------------------------------------
C8_LateTapNotChained ==
    out.type \in {"DOUBLE_CLICK", "TRIPLE_CLICK", "QUAD_CLICK"} => ~h_late

\* ------------------------------------------------------------------------
\* C9: every Move and DragMove returned has |dx| <= 127 and |dy| <= 127.
\* ------------------------------------------------------------------------
C9_MoveDeltaClamped ==
    out.type \in {"MOVE", "DRAG_MOVE"} =>
        /\ Abs(out.dx) <= 127
        /\ Abs(out.dy) <= 127

\* ------------------------------------------------------------------------
\* C10: every ScrollV and ScrollH action has |units| <= 127.
\* ------------------------------------------------------------------------
C10_ScrollUnitsClamped ==
    /\ c_action.type = "SCROLL_V" => Abs(c_action.scroll_v) <= 127
    /\ c_action.type = "SCROLL_H" => Abs(c_action.scroll_h) <= 127

\* ------------------------------------------------------------------------
\* C11: zone lock.  What a sample of a contact yields is fixed by the zone of
\* the position the contact was pressed at: a contact pressed in Main never
\* yields ScrollV or ScrollH, a contact pressed in a scroll strip never
\* yields Move, DragStart or DragMove, wherever the sample itself lies.
\* ------------------------------------------------------------------------
C11_ZoneLock ==
    LET pressed_zone == trackpad_get_zone(c_touch_start[1], c_touch_start[2],
                                          hres, vres, scroll_zone_w, scroll_zone_h)
    IN  c_op = "pressing" =>
          /\ pressed_zone = "MAIN" => c_action.type \notin {"SCROLL_V", "SCROLL_H"}
          /\ pressed_zone # "MAIN" =>
                 c_action.type \notin {"MOVE", "DRAG_START", "DRAG_MOVE"}

\* a contact pressed in the right strip has crossed into the bottom strip
\* and the sample there yields ScrollV
C11_Witness ==
    /\ c_op = "pressing"
    /\ c_touch_start = <<300, 100>>
    /\ c_last_pos = <<100, 220>>
    /\ c_action.type = "SCROLL_V"

\* C12: a contact that starts in the vertical scroll strip yields ScrollV
\* units whose sign is opposite to the finger's y displacement (toward larger
\* y gives units < 0, toward smaller y gives units > 0), and neither a Move
\* nor a Click, at any of its samples and at its release.
C12_VerticalStripOnlyScrolls ==
    [][(/\ c_state # "IDLE"
        /\ trackpad_get_zone(c_touch_start[1], c_touch_start[2],
                             hres, vres, scroll_zone_w, scroll_zone_h) = "SCROLL_V"
        /\ c_op' \in {"pressing", "released"})
       => /\ c_action'.type \notin {"MOVE", "CLICK_DOWN", "DOUBLE_CLICK"}
          /\ c_action'.type = "SCROLL_V"
               => /\ c_last_pos'[2] > c_last_pos[2] => c_action'.scroll_v < 0
                  /\ c_last_pos'[2] < c_last_pos[2] => c_action'.scroll_v > 0]_vars

\* C13: after the engine returned Click{n} (n in 1..4), and as long as no
\* further Click follows, the polls deliver exactly n button-down and n
\* button-up reports: strictly alternating and starting with button-down,
\* at most one report per poll, never more than n of either (so none after
\* the sequence is done), and with advancing time the n pairs of the last
\* Click are all delivered.
C13_SequencerCount ==
    /\ [](/\ h_ups <= h_downs
          /\ h_downs <= h_ups + 1
          /\ h_downs <= h_n
          /\ Len(s_report) <= 1)
    /\ (s_pending_clicks > 0) ~> (h_downs = h_n /\ h_ups = h_n)

C13_Witness ==
    /\ h_n = 4
    /\ h_downs = 4
    /\ h_ups = 4
    /\ s_pending_clicks = 0
    /\ s_report = <<>>

\* C14: every button-up report comes at least CLICK_PRESS_MS after its
\* button-down report, and every button-down report after the first of a
\* sequence comes at least CLICK_GAP_MS after the button-up report before
\* it, whatever the timestamps of the polls.
C14_SequencerTiming ==
    /\ s_report = <<"up">> => s_now - h_down_time >= CLICK_PRESS_MS
    /\ (s_report = <<"down">> /\ h_downs > 1) => s_now - h_up_time >= CLICK_GAP_MS

C14_Witness ==
    /\ s_report = <<"down">>
    /\ h_downs = 2
    /\ s_now - h_up_time = CLICK_GAP_MS

\* C15: a button report submitted while the sink is not ready is tried
\* SEND_ATTEMPTS times at most: it is delivered exactly once when the sink is
\* ready at one of those attempts and is otherwise dropped with the result
\* ESP_ERR_NOT_FINISHED; the call returns after SEND_ATTEMPTS attempts at the
\* latest, never delivers the report twice and leaves the engines alone.
C15_BoundedRetry ==
    /\ hid_pc = "running" => hid_i <= SEND_ATTEMPTS /\ hid_delivered = 0
    /\ hid_pc = "returned" =>
          /\ hid_delivered <= 1
          /\ h_ready_within => hid_delivered = 1 /\ hid_ret = "ESP_OK"
          /\ hid_delivered = 0 => hid_ret = "ESP_ERR_NOT_FINISHED"

\* C16: reset, called in any reachable state (Dragging and WaitingForChain
\* with pending taps included), returns no action and leaves the engine as
\* its constructor does: Idle, no contact, tap count 0, positions, times,
\* movement and accumulators zero (m_current_time, which every later call
\* overwrites before reading it, is the one field reset leaves alone); a
\* second reset changes nothing.
C16_ResetIsFresh ==
    [][op' = "reset" =>
          /\ out' = NoAction
          /\ m_state' = "IDLE"
          /\ ~m_touch_down'
          /\ m_tap_count' = 0
          /\ <<m_last_x', m_last_y', m_touch_start_x', m_touch_start_y'>> = <<0, 0, 0, 0>>
          /\ <<m_touch_down_time', m_last_release_time', m_total_movement'>> = <<0, 0, 0>>
          /\ <<m_accum_x', m_accum_y'>> = <<0, 0>>
          /\ op = "reset" => UNCHANGED <<mvars, out>>]_vars

C16_Witness ==
    /\ op = "reset"
    /\ h_open
    /\ m_state = "IDLE"
    /\ m_tap_count = 0
    /\ m_current_time > 0

\* C17: an engine freshly set up by trackpad_state_init answers a trace as
\* every other freshly set up engine does, whatever an earlier engine
\* processed: it is in the constructor's state, and so a release or a tick
\* handed to it first returns no action.
C17_FreshEnginesAgree ==
    /\ [](op = "init" => m_state = "IDLE" /\ ~m_touch_down /\ m_tap_count = 0)
    /\ [][(op = "init" /\ op' \in {"released", "tick"}) => out' = NoAction]_vars

\* C18: a tick whose timestamp is smaller than the recorded time it is
\* measured against counts as zero elapsed time: measured against the
\* release of the last tap it returns no Click, measured against the touch
\* down of a held contact it returns no DragStart, and either way it leaves
\* state and tap count as they are.
C18_BackwardTimeIsZeroElapsed ==
    [][(/\ op' = "tick"
        /\ m_state = "WAITING_FOR_TAP"
        /\ IF m_touch_down THEN m_current_time' < m_touch_down_time
                           ELSE m_current_time' < m_last_release_time)
       => /\ out'.type \notin ClickTypes \cup {"DRAG_START"}
          /\ UNCHANGED <<m_state, m_tap_count>>]_vars

\* C19: a Pressing sample that differs from the sample before it by at most
\* the jitter threshold on both axes, the threshold itself included, returns
\* no Move; so a trace made of such samples returns no Move at all.
C19_JitterNeverMoves ==
    [][(/\ op' = "pressing"
        /\ Abs(m_last_x' - m_last_x) <= anti_wiggle_px
        /\ Abs(m_last_y' - m_last_y) <= anti_wiggle_px)
       => out'.type # "MOVE"]_vars

\* C20: trackpad_get_zone returns ScrollCorner when x >= hres - w and
\* y >= vres - h, else ScrollV when x >= hres - w, else ScrollH when
\* y >= vres - h, else Main: the horizontal strip lies at the bottom edge,
\* x = hres - w is ScrollV and x = hres - w - 1 is Main.
C20_ZoneClassifier ==
    LET in_right == z_x >= hres - z_w
        in_bottom == z_y >= vres - z_h
        zone == IF in_right /\ in_bottom THEN "SCROLL_CORNER"
                ELSE IF in_right THEN "SCROLL_V"
                ELSE IF in_bottom THEN "SCROLL_H"
                ELSE "MAIN"
    IN  z_zone # "NONE" => z_zone = zone /\ z_zone_cpp = zone

\* C21: with scroll_zone_w = 0 the vertical strip is inactive: for no
\* coordinate pair, on the panel or outside it, does trackpad_get_zone
\* return ScrollV or ScrollCorner (so the engine, which scrolls vertically
\* only for a contact classified so, never returns ScrollV).
C21_NoVerticalStripWhenZeroWidth ==
    (z_zone # "NONE" /\ z_w = 0)
       => /\ z_zone \notin {"SCROLL_V", "SCROLL_CORNER"}
          /\ z_zone_cpp \notin {"SCROLL_V", "SCROLL_CORNER"}

\* C22: a first contact (its Pressed arrived while no tap chain was pending)
\* is pointer movement: neither its Pressed, nor any sample or release of
\* it, nor any tick while it is held returns DragStart or DragMove, however
\* long it is held and however it moves.
C22_FirstContactNeverDrags ==
    [][(\/ op' = "pressed" /\ h_first'
        \/ op' # "pressed" /\ m_touch_down /\ h_first)
       => out'.type \notin {"DRAG_START", "DRAG_MOVE"}]_vars

C22_Witness ==
    /\ op = "tick"
    /\ m_touch_down
    /\ h_first
    /\ m_current_time - m_touch_down_time >= drag_hold_time_ms
    /\ m_total_movement > tap_max_movement_px
    /\ m_state = "MOVING"

\* ------------------------------------------------------------------------
\* C23: engine instances are independent: with two trackpad_state_t values
\* each initialised by trackpad_state_init, the actions returned for the
\* events of one instance do not depend on the events processed on the other.
\* An engine on its own returns nothing for a Pressing or a Released that no
\* Pressed of its own precedes, so a Pressing or Released given to an
\* instance that holds no contact of its own returns no action, whatever the
\* other instance was given.
\* ------------------------------------------------------------------------
C23_InstancesIndependent ==
    [][(op' \in {"pressing", "released"} /\ inst' \notin h_held)
       => out' = NoAction]_vars

\* ------------------------------------------------------------------------
\* C24: a contact released in phase Moving is never recognised as a tap: the
\* release records no tap and returns no click on account of that contact,
\* even when the finger is back within the tap displacement bound of its
\* start within the tap duration. (The procedural engine has no pending
\* clicks to flush: a click it returns at a release is the click of the
\* released contact.)
\* ------------------------------------------------------------------------
C24_MovingReleaseIsNoTap ==
    [][(c_state = "MOVING" /\ c_op' = "released")
       => /\ c_action'.type \notin {"CLICK_DOWN", "DOUBLE_CLICK"}
          /\ c_last_tap_time' = 0]_vars

\* ------------------------------------------------------------------------
\* C25: in WaitingForChain with a second contact held, the first Pressing
\* sample at which the contact's total_movement exceeds the tap-movement
\* threshold, before the drag-hold time has elapsed, returns the click of the
\* accumulated taps, clears tap_count and sets the phase to Moving, however
\* the movement is spread over the samples (samples with deltas below the
\* jitter threshold included).
\* ------------------------------------------------------------------------
C25_MovementCancelsChain ==
    [][(/\ m_state = "WAITING_FOR_TAP"
        /\ m_touch_down
        /\ op' = "pressing"
        /\ m_total_movement <= tap_max_movement_px
        /\ m_total_movement' > tap_max_movement_px
        /\ U32Sub(m_current_time', m_touch_down_time) < drag_hold_time_ms)
       => /\ out' = emitPendingClicks(m_tap_count)
          /\ m_tap_count' = 0
          /\ m_state' = "MOVING"]_vars

\* ------------------------------------------------------------------------
\* C26: eager drag: in WaitingForChain with a second contact held, the
\* Pressing sample that takes the contact's movement beyond the drag-move
\* threshold before the drag-hold time has elapsed starts the drag itself:
\* the call returns DragStart, the phase becomes Dragging and tap_count is
\* cleared, without waiting for a tick. (The class has no threshold of its
\* own; the one of trackpad_gesture.h is used.)
\* ------------------------------------------------------------------------
C26_EagerDrag ==
    [][(/\ m_state = "WAITING_FOR_TAP"
        /\ m_touch_down
        /\ op' = "pressing"
        /\ m_total_movement <= TRACKPAD_DRAG_MOVE_THRESHOLD
        /\ m_total_movement' > TRACKPAD_DRAG_MOVE_THRESHOLD
        /\ U32Sub(m_current_time', m_touch_down_time) < drag_hold_time_ms)
       => /\ out'.type = "DRAG_START"
          /\ m_state' = "DRAGGING"
          /\ m_tap_count' = 0]_vars

\* ------------------------------------------------------------------------
\* C27: a touch whose duration (release time minus press time) is exactly
\* the tap maximum is not a tap: its release does not increment tap_count
\* and does not leave the engine waiting to return a click for it.
\* ------------------------------------------------------------------------
C27_MaxDurationIsNoTap ==
    [][(/\ op' = "released"
        /\ m_touch_down
        /\ U32Sub(m_current_time', m_touch_down_time) = tap_max_duration_ms)
       => /\ m_tap_count' <= m_tap_count
          /\ m_state' # "WAITING_FOR_TAP"]_vars

\* ------------------------------------------------------------------------
\* C28: a touch with zero movement whose duration is exactly the tap minimum
\* is not a tap, and the same touch one millisecond longer is a tap.
\* ------------------------------------------------------------------------
C28_MinDurationBoundary ==
    (t_tap # "unset" /\ t_net = 0 /\ t_total = 0)
    => /\ t_duration = TRACKPAD_TAP_MIN_DURATION_MS
          => (t_tap = "TAP_NONE" /\ ~t_is_tap)
       /\ t_duration = TRACKPAD_TAP_MIN_DURATION_MS + 1
          => (t_tap # "TAP_NONE" /\ t_is_tap)

\* ------------------------------------------------------------------------
\* C29: a touch of valid tap duration whose net displacement
\* |x_end - x_start| + |y_end - y_start| is exactly the tap movement bound is
\* not a tap.
\* ------------------------------------------------------------------------
C29_MoveBoundIsNoTap ==
    (/\ t_tap # "unset"
     /\ ValidTapDuration(t_duration)
     /\ t_net = tap_max_movement_px)
    => ~t_is_tap

\* ------------------------------------------------------------------------
\* C30: jitter allowance: a touch of valid tap duration whose net
\* displacement is below the tap movement threshold is a tap even when its
\* total movement exceeds twice the threshold.
\* ------------------------------------------------------------------------
C30_JitterAllowance ==
    (/\ t_tap # "unset"
     /\ ValidTapDuration(t_duration)
     /\ t_net < tap_max_movement_px
     /\ t_total > 2 * tap_max_movement_px)
    => t_is_tap

\* ------------------------------------------------------------------------
\* C31: every click the engine returns carries n in {1, 2, 3, 4}, and n is
\* the number of taps accumulated in the chain it reports (tap_count at the
\* moment of emission), for chains of any length.
\* ------------------------------------------------------------------------
C31_ClickCarriesTapCount ==
    [][(out'.type \in ClickTypes /\ op' \in {"tick", "pressing", "released"})
       => ClickN(out'.type) = m_tap_count]_vars

\* ------------------------------------------------------------------------
\* C32: after every call that returns ScrollV or ScrollH, the scroll
\* accumulator that fed it lies strictly between -1 and 1 (the returned
\* integer is the truncated accumulator and is subtracted from it), for
\* every magnitude of the input delta. The accumulators are kept in units of
\* 1 / TRACKPAD_SCROLL_SENSITIVITY.
\* ------------------------------------------------------------------------
C32_AccumulatorBelowOne ==
    /\ (c_op = "pressing" /\ c_action.type = "SCROLL_V")
       => Abs(c_scroll_accum_v) < TRACKPAD_SCROLL_SENSITIVITY
    /\ (c_op = "pressing" /\ c_action.type = "SCROLL_H")
       => Abs(c_scroll_accum_h) < TRACKPAD_SCROLL_SENSITIVITY

\* ------------------------------------------------------------------------
\* C33: after the button-up of the last pending click (phase Released and
\* no click pending), a poll in which no new click is queued returns the
\* click sequencer to phase Idle: a finished sequencer rests in Idle.
\* ------------------------------------------------------------------------
C33_FinishedSequencerIdle ==
    [][(s_click_phase = 2 /\ s_pending_clicks = 0 /\ h_queues' = h_queues)
       => s_click_phase' = 0]_vars

\* ------------------------------------------------------------------------
\* C34: button balance: whenever the engine is in Idle, whether it got there
\* by an input event, a tick or a reset, every DragStart it has returned has
\* been followed by a DragEnd.
\* ------------------------------------------------------------------------
C34_IdleHasNoOpenDrag ==
    m_state = "IDLE" => ~h_open

\* ------------------------------------------------------------------------
\* C35: for every interleaving of queue_clicks calls (at any phase of the
\* sequencer, also while a button-down is outstanding) and polls, the button
\* reports alternate strictly between down and up: while a button-down is
\* outstanding (phase Pressed) no poll sends another button-down.
\* ------------------------------------------------------------------------
C35_ReportsAlternate ==
    [][s_click_phase = 1 => s_report' # <<"down">>]_vars

\* ------------------------------------------------------------------------
\* C36: with a sink that may be not ready at any send, every button-down
\* the sink accepted for a queued click is followed by an accepted button-up:
\* the sequencer does not advance past a release whose report was dropped,
\* so once no click is pending the host has seen the button go up.
\* ------------------------------------------------------------------------
C36_NoStuckButton ==
    s_pending_clicks = 0 => h_button = 0

\* ------------------------------------------------------------------------
\* C37: app_trackpad_update_config (or any trackpad_state_init) called from
\* another task while the polling task is inside trackpad_process_input or
\* trackpad_tick never makes the polling task operate on an engine object
\* that has been destroyed: the object a call runs on is a constructed one
\* for as long as the call lasts.
\* ------------------------------------------------------------------------
C37_NoCallOnDeletedEngine ==
    p_pc = "inside" => p_obj \in g_live

\* ------------------------------------------------------------------------
\* C38: app_trackpad_get_status called from the UI task while the polling
\* task runs returns a consistent snapshot: the x, y, touched and zone it
\* returns were all written by the same iteration of the polling loop.
\* ------------------------------------------------------------------------
C38_SnapshotOfOneIteration ==
    k_rpc = 4 => \A i \in 1..4 : k_snap[i] = k_snap[1]

\* ------------------------------------------------------------------------
\* C39: a Pressing or Released event that arrives while no contact is down
\* (no Pressed since the last Released or reset) returns no action and
\* changes no engine state other than the recorded current time: phase,
\* tap_count, positions, total_movement, accumulators and last_release_time
\* are unchanged.
\* ------------------------------------------------------------------------
C39_StrayEventChangesNothing ==
    [][(~m_touch_down /\ op' \in {"pressing", "released"})
       => /\ out' = NoAction
          /\ m_state' = m_state
          /\ m_touch_down' = m_touch_down
          /\ m_tap_count' = m_tap_count
          /\ m_last_x' = m_last_x
          /\ m_last_y' = m_last_y
          /\ m_touch_start_x' = m_touch_start_x
          /\ m_touch_start_y' = m_touch_start_y
          /\ m_touch_down_time' = m_touch_down_time
          /\ m_last_release_time' = m_last_release_time
          /\ m_total_movement' = m_total_movement
          /\ m_accum_x' = m_accum_x
          /\ m_accum_y' = m_accum_y]_vars

C39_Witness ==
    /\ op = "pressing"
    /\ ~m_touch_down
    /\ out = NoAction
    /\ m_state = "WAITING_FOR_TAP"
    /\ m_tap_count = 2
    /\ m_current_time > m_last_release_time

====
